---- MODULE Spec2Model ----
(***************************************************************************)
(* nologd (src/main.cpp): a single-threaded epoll reactor that collects    *)
(* log bytes from two datagram sockets and one listening stream socket     *)
(* and forwards them, through a per-endpoint handler, to a file logger.    *)
(*                                                                         *)
(* Characters are strings: "<", ">", "1" (a digit), "NL" ('\n'),           *)
(* "SP" (' '), "NUL" ('\0'), "a" (any other character) and "U" (a buffer   *)
(* position that was never written: an indeterminate value).               *)
(* Descriptors are integers; -1 is the failure return of the system calls. *)
(***************************************************************************)
EXTENDS Integers, Sequences, FiniteSets, TLC

(***************************************************************************)
(* Bounds of the model.                                                    *)
(***************************************************************************)
\* char buf[2048] of SocketReader::read, scaled down: the number of
\* positions of the read buffer.  One read asks for BufSize - 1 bytes.
BufSize == 6
\* how many connections the clients make in one run
MaxConn == 2
\* how many datagrams / stream writes the clients send in one run
MaxSent == 1
\* how many observer objects the registry harness creates in one run
MaxObs == 4

\* the lowest descriptor number the process has free at startup
\* (0, 1, 2 are the standard streams, 3 is the epoll descriptor)
FirstFd == 4
\* descriptor numbers the process can get: three persistent sockets and
\* the accepted connections
FdRange == FirstFd .. (FirstFd + 2 + MaxConn)

\* ev.data.fd before epoll_wait has ever written it
Indet == -2
\* a descriptor value that no observer has
NoFd == -1

VARIABLES
    pc,         \* position of the program (main, loop, the running notify)
    stopped,    \* SocketObservable::stopped
    intr,       \* the blocked epoll_wait has been interrupted by a signal
    ev,         \* ev.data.fd of SocketObservable::loop
    err,        \* what() of the runtime_error that left loop(), or "none"
    wres,       \* r and errno of the epoll_wait of this turn of the loop,
                \* "none" between the turns
    observers,  \* SocketObservable::observers: descriptor -> observer
    watched,    \* the interest list of epoll_fd
    eps,        \* the observer objects ever constructed, by identity
    sock,       \* the open sockets of the process: descriptor -> socket
    tmp,        \* the local shared_ptr of main / StdoutObserver::notify
    cur,        \* the observer whose notify is running (0: none)
    acc,        \* return value of unix_accept in StreamObserver's constructor
    buf,        \* char buf[] of the running SocketReader::read
    rlen,       \* its len: what the last ::read returned, if positive
    chunk,      \* the bytes buf[0..len) given to its last handle call
    wr,         \* arguments of the LoggerInterface::write of that call
    wrBy,       \* the observer whose notify runs that read (0: none)
    hnd,        \* the handler of that call
    nconn,      \* connections made by clients so far
    sent,       \* datagrams and stream writes sent by clients so far
    sigInCb,    \* a shutdown signal arrived while a notify was running
    dIn,        \* bytes available on the descriptor when the drain began
    dOut,       \* concatenation of the chunks the drain has handed on
    arg         \* the key a caller of the registry passes to delObserver

vars == <<pc, stopped, intr, ev, err, wres, observers, watched, eps, sock,
          tmp, cur, acc, buf, rlen, chunk, wr, wrBy, hnd, nconn, sent,
          sigInCb, dIn, dOut, arg>>

(***************************************************************************)
(* Helpers on sequences and functions.                                     *)
(***************************************************************************)
Min(a, b) == IF a < b THEN a ELSE b

Rep(c, n) == [i \in 1..n |-> c]

Drop(f, k) == [x \in (DOMAIN f) \ {k} |-> f[x]]

RECURSIVE Flatten(_)
Flatten(ss) == IF ss = <<>> THEN <<>> ELSE Head(ss) \o Flatten(Tail(ss))

(***************************************************************************)
(* FileLogger::write(buf, len): the sink gets the record separator and     *)
(* then len bytes from buf.  start is the offset of buf in the read        *)
(* buffer b.  A negative len reaches ::write as a huge size_t: what is     *)
(* written then is not determined by the chunk, and no bytes are recorded. *)
(***************************************************************************)
LoggerWrite(b, start, len) ==
    [sep   |-> "NL",
     start |-> start,
     len   |-> len,
     bytes |-> IF len >= 0 THEN SubSeq(b, start + 1, start + len) ELSE <<>>]

NoWrite == [sep |-> "NL", start |-> 0, len |-> 0, bytes |-> <<>>]

(***************************************************************************)
(* StreamHandler::handle: the chunk goes to the logger as it is.           *)
(***************************************************************************)
StreamHandle(b, len) == [buf |-> b, wr |-> LoggerWrite(b, 0, len)]

(***************************************************************************)
(* SyslogHandler::handle.  C index i is position i + 1 of b.               *)
(***************************************************************************)
IsDigit(c) == c = "1"

\* buf[start] == '>' ; gt decides the comparison on an indeterminate byte
IsGt(c, gt) == IF c = "U" THEN gt ELSE c = ">"

\* do ++start; while (start < len && isdigit(buf[start]));  after the ++start
RECURSIVE SkipDigits(_, _, _)
SkipDigits(b, len, start) ==
    IF start < len /\ IsDigit(b[start + 1])
    THEN SkipDigits(b, len, start + 1)
    ELSE start

\* the value of start when the priority scan is over
SyslogStart(b, len, gt) ==
    IF 0 < len /\ b[1] = "<"
    THEN LET s == SkipDigits(b, len, 1)
         IN  IF IsGt(b[s + 1], gt) THEN s + 1 ELSE s
    ELSE 0

\* while (end > 0 && buf[end] == '\n') buf[end--] = '\0';
RECURSIVE SyslogTrim(_, _)
SyslogTrim(b, end) ==
    IF end > 0 /\ b[end + 1] = "NL"
    THEN SyslogTrim([b EXCEPT ![end + 1] = "NUL"], end - 1)
    ELSE [buf |-> b, end |-> end]

\* the length handed to the logger: end - start
SyslogLen(start, end) == end - start

SyslogHandle(b, len, gt) ==
    LET start == SyslogStart(b, len, gt)
        t     == SyslogTrim(b, len - 1)
    IN  [buf |-> t.buf,
         wr  |-> LoggerWrite(t.buf, start, SyslogLen(start, t.end))]

(***************************************************************************)
(* JournalHandler::handle: every '\n' of the chunk becomes ' '.            *)
(***************************************************************************)
\* a handler that leaves the newlines in
JournalFold_Keep(c) == c

\* if (buf[pos] == '\n') buf[pos] = ' ';
JournalFold(c) == IF c = "NL" THEN "SP" ELSE c

JournalHandle(b, len) ==
    LET b2 == [i \in DOMAIN b |-> IF i <= len THEN JournalFold(b[i]) ELSE b[i]]
    IN  [buf |-> b2, wr |-> LoggerWrite(b2, 0, len)]

\* _handler->handle(buf, len) of the reader named rd (main: each reader is
\* built on one handler)
HandlerOf(rd) ==
    CASE rd = "syslogReader"  -> "SyslogHandler"
      [] rd = "journalReader" -> "JournalHandler"
      [] rd = "streamReader"  -> "StreamHandler"

Handle(h, b, len, gt) ==
    CASE h = "SyslogHandler"  -> SyslogHandle(b, len, gt)
      [] h = "JournalHandler" -> JournalHandle(b, len)
      [] h = "StreamHandler"  -> StreamHandle(b, len)

\* a main that builds the listener on the journal reader
ReaderOfKind_Journal(kind) ==
    CASE kind = "Syslog" -> "syslogReader"
      [] kind = "Socket" -> "journalReader"
      [] kind = "Stdout" -> "journalReader"

\* the reader main gives to each persistent observer; a StreamObserver gets
\* the _reader of the StdoutObserver that accepts it
ReaderOfKind(kind) ==
    CASE kind = "Syslog" -> "syslogReader"
      [] kind = "Socket" -> "journalReader"
      [] kind = "Stdout" -> "streamReader"

\* socket type unix_open is called with by each persistent observer
TypeOfKind(kind) ==
    CASE kind = "Syslog" -> "dgram"
      [] kind = "Socket" -> "dgram"
      [] kind = "Stdout" -> "listen"


(***************************************************************************)
(* The kernel side: sockets, descriptors, the epoll interest list.         *)
(* A socket is [type, q, eof]: q holds the queued datagrams of a "dgram"   *)
(* socket, the queued bytes of a "stream" socket, the pending connections  *)
(* (each a stream socket) of a "listen" socket; eof: the peer has closed.  *)
(***************************************************************************)
NewSock(type) == [type |-> type, q |-> <<>>, eof |-> FALSE]

HasFreeFd(s) == \E f \in FdRange : f \notin DOMAIN s

\* socket() and accept4() return the lowest descriptor number not in use
LowestFree(s) ==
    CHOOSE f \in FdRange :
        f \notin DOMAIN s /\ \A g \in FdRange : g < f => g \in DOMAIN s

\* close(fd): the descriptor is freed and leaves every interest list
CloseFd(s, fd) == Drop(s, fd)

\* an addObserver that forgets the watch
EpollAdd_Skip(w, fd, open) == w

\* epoll_ctl(epoll_fd, EPOLL_CTL_ADD, sock_fd, &ev): fails (ignored) on a
\* descriptor that is not open
EpollAdd(w, fd, open) == IF fd \in open THEN w \cup {fd} ELSE w

\* a delObserver that leaves the unsubscribing to the close
EpollDel_Skip(w, fd) == w

\* epoll_ctl(epoll_fd, EPOLL_CTL_DEL, key, NULL)
EpollDel(w, fd) == w \ {fd}

\* level-triggered EPOLLIN: data, a pending connection or end of stream
Readable(sk) == sk.q # <<>> \/ (sk.type = "stream" /\ sk.eof)

Ready(fd) == fd \in watched /\ fd \in DOMAIN sock /\ Readable(sock[fd])

(***************************************************************************)
(* ::read(sock_fd, buf, NELEMS(buf) - 1) on socket sk: the return value,   *)
(* the bytes stored at the front of buf, and the socket afterwards.  A     *)
(* datagram read takes one datagram and drops what does not fit; a stream  *)
(* read takes what is queued, up to the count.                             *)
(***************************************************************************)
ReadCount == BufSize - 1

SockRead(sk) ==
    IF sk.q = <<>>
    THEN [n |-> IF sk.type = "stream" /\ sk.eof THEN 0 ELSE -1,
          bytes |-> <<>>, sk |-> sk]
    ELSE IF sk.type = "dgram"
    THEN LET d == Head(sk.q)
             n == Min(Len(d), ReadCount)
         IN  [n |-> n, bytes |-> SubSeq(d, 1, n),
              sk |-> [sk EXCEPT !.q = Tail(sk.q)]]
    ELSE IF sk.type = "stream"
    THEN LET n == Min(Len(sk.q), ReadCount)
         IN  [n |-> n, bytes |-> SubSeq(sk.q, 1, n),
              sk |-> [sk EXCEPT !.q = SubSeq(sk.q, n + 1, Len(sk.q))]]
    ELSE [n |-> -1, bytes |-> <<>>, sk |-> sk]

\* buf after a read that stored bytes at its front
Store(b, bytes) ==
    [i \in 1..BufSize |-> IF i <= Len(bytes) THEN bytes[i] ELSE b[i]]

\* the bytes a socket holds, in arrival order
Avail(sk) == IF sk.type = "dgram" THEN Flatten(sk.q) ELSE sk.q

(***************************************************************************)
(* Observer objects.  eps[o] is the object with identity o: its class      *)
(* (kind), its sock_fd, its _reader, whether it is alive, how often its    *)
(* notify was called (counted up to NotesCap), how often its destructor    *)
(* has called close, and whether, at that close, the socket was a          *)
(* connection whose peer had not closed.                                   *)
(***************************************************************************)
NotesCap == 2

NewObserver(kind, fd, rd) ==
    [kind |-> kind, fd |-> fd, reader |-> rd, alive |-> TRUE,
     notes |-> 0, closes |-> 0, peerOpen |-> FALSE]

\* notes after one more call of notify; the calls are counted for the
\* observers of accepted connections, which are meant to get only one
Notified(e) ==
    IF e.kind = "Stream" THEN Min(e.notes + 1, NotesCap) ELSE e.notes

\* a delObserver that forgets the erase
Erase_Keep(obs, key) == obs

\* an erase through find(key) that does not test for end(): with the key
\* absent it takes another entry out
Erase_Iter(obs, key) ==
    IF key \in DOMAIN obs \/ DOMAIN obs = {}
    THEN Drop(obs, key)
    ELSE Drop(obs, CHOOSE k \in DOMAIN obs : TRUE)

\* observers.erase(key)
Erase(obs, key) == Drop(obs, key)

\* observers[observer->key()] = observer
MapAssign(obs, key, o) ==
    IF key \in DOMAIN obs THEN [obs EXCEPT ![key] = o] ELSE obs @@ (key :> o)

\* the observers that lost their last reference when the map went from
\* obs to obs2 (the map holds the only lasting reference to an observer)
Released(obs, obs2) ==
    {obs[k] : k \in DOMAIN obs} \ {obs2[k] : k \in DOMAIN obs2}

PeerOpen(fd) ==
    fd \in DOMAIN sock /\ sock[fd].type = "stream" /\ ~sock[fd].eof

\* destructors that forget the close
ClosedBy_None(D) == {}

\* the descriptors the destructors of the observers of set D close:
\* ~XxxObserver() { close(sock_fd); }
ClosedBy(D) == {eps[o].fd : o \in D}

\* all observers of set D are destroyed
DestroyAll(D) ==
    /\ eps' = [o \in DOMAIN eps |->
                 IF o \in D
                 THEN [eps[o] EXCEPT
                         !.alive = FALSE,
                         !.closes = IF eps[o].fd \in ClosedBy(D)
                                    THEN @ + 1 ELSE @,
                         !.peerOpen = PeerOpen(eps[o].fd)]
                 ELSE eps[o]]
    /\ sock' = [f \in (DOMAIN sock) \ ClosedBy(D) |-> sock[f]]

(***************************************************************************)
(* SocketObservable::addObserver(observer)                                 *)
(***************************************************************************)
AddObserver(o) ==
    LET key  == eps[o].fd
        obs2 == MapAssign(observers, key, o)
        gone == Released(observers, obs2) \ {o}
        w    == IF key \notin DOMAIN observers
                THEN EpollAdd(watched, key, DOMAIN sock)
                ELSE watched
    IN  /\ observers' = obs2
        /\ DestroyAll(gone)
        /\ watched' = w \ ClosedBy(gone)

(***************************************************************************)
(* SocketObservable::delObserver(key), its two statements                  *)
(***************************************************************************)
\* epoll_ctl(epoll_fd, EPOLL_CTL_DEL, key, nullptr)
DelObserverDel(key) ==
    /\ watched' = EpollDel(watched, key)
    /\ UNCHANGED <<observers, eps, sock>>

\* observers.erase(key)
DelObserverErase(key) ==
    LET obs2 == Erase(observers, key)
        gone == Released(observers, obs2)
    IN  /\ observers' = obs2
        /\ DestroyAll(gone)
        /\ watched' = watched \ ClosedBy(gone)


(***************************************************************************)
(* What the clients send.                                                  *)
(***************************************************************************)
\* a syslog line with a priority tag and a final newline
TaggedLine == <<"<", "1", ">", "a", "NL">>
\* two lines in one message
TwoLines == <<"a", "NL", "a">>
\* a message one byte longer than one read can take
LongMsg == Rep("a", BufSize)

DgramMsgs == {TaggedLine}
StreamMsgs == {TwoLines}

(***************************************************************************)
(* The state after the static initialisers and the first statements of     *)
(* main: no observer yet, stopped = false, the standard streams and        *)
(* epoll_fd open.                                                          *)
(***************************************************************************)
Quiet ==
    /\ stopped = FALSE
    /\ intr = FALSE
    /\ ev = Indet
    /\ err = "none"
    /\ wres = "none"
    /\ arg = NoFd
    /\ observers = <<>>
    /\ watched = {}
    /\ eps = <<>>
    /\ sock = <<>>
    /\ tmp = 0
    /\ cur = 0
    /\ acc = NoFd
    /\ buf = Rep("U", BufSize)
    /\ rlen = 0
    /\ chunk = <<>>
    /\ wr = NoWrite
    /\ wrBy = 0
    /\ hnd = "none"
    /\ nconn = 0
    /\ sent = 0
    /\ sigInCb = FALSE
    /\ dIn = <<>>
    /\ dOut = <<>>

Init == pc = "open1" /\ Quiet

envVars == <<nconn, sent, arg>>
ioVars == <<buf, rlen, chunk, wr, wrBy, hnd>>
regVars == <<observers, watched, eps, sock>>
loopVars == <<stopped, intr, ev, err, wres, sigInCb>>
drainVars == <<dIn, dOut>>

(***************************************************************************)
(* main: the three persistent observers, each in its own try block.        *)
(***************************************************************************)
KindAt(i) == <<"Syslog", "Socket", "Stdout">>[i]
OpenPc(i) == <<"open1", "open2", "open3", "top">>[i]
AddPc(i) == <<"add1", "add2", "add3">>[i]

\* one try block around the three observers: a throw skips the rest
AfterThrow_Skip(i) == "top"

\* catch (const std::exception& e) { cerr << e.what() << endl; } of the
\* i-th try block: main goes on with the statement after it
AfterThrow(i) == OpenPc(i + 1)

\* make_shared<XxxObserver>(reader): unix_open succeeds (ok) or returns -1,
\* and then the constructor throws and main's catch goes on
Construct(i) ==
    /\ pc = OpenPc(i)
    /\ \E ok \in BOOLEAN :
         IF ok /\ HasFreeFd(sock)
         THEN LET fd == LowestFree(sock)
              IN  /\ sock' = sock @@ (fd :> NewSock(TypeOfKind(KindAt(i))))
                  /\ eps' = Append(eps, NewObserver(KindAt(i), fd,
                                                    ReaderOfKind(KindAt(i))))
                  /\ tmp' = Len(eps) + 1
                  /\ pc' = AddPc(i)
         ELSE /\ pc' = AfterThrow(i)
              /\ UNCHANGED <<sock, eps, tmp>>
    /\ UNCHANGED <<observers, watched, cur, acc>>
    /\ UNCHANGED <<loopVars, ioVars, envVars, drainVars>>

\* watcher.addObserver(xxxObserver); the local shared_ptr then goes away
Register(i) ==
    /\ pc = AddPc(i)
    /\ AddObserver(tmp)
    /\ tmp' = 0
    /\ pc' = OpenPc(i + 1)
    /\ UNCHANGED <<cur, acc>>
    /\ UNCHANGED <<loopVars, ioVars, envVars, drainVars>>

Startup == \E i \in 1..3 : Construct(i) \/ Register(i)

(***************************************************************************)
(* SocketObservable::loop                                                  *)
(***************************************************************************)
CallbackPcs == {"read", "accept", "ctor", "add", "del", "erase"}
LoopPcs == {"top", "call", "wait", "dispatch"} \cup CallbackPcs

\* a loop that never tests the flag
LoopCond_Always(st) == TRUE

\* while (!stopped)
LoopCond(st) == ~st

Check ==
    /\ pc = "top"
    /\ pc' = IF LoopCond(stopped) THEN "call" ELSE "done"
    /\ wres' = "none"
    /\ UNCHANGED <<stopped, intr, ev, err, sigInCb>>
    /\ UNCHANGED <<regVars, tmp, cur, acc>>
    /\ UNCHANGED <<ioVars, envVars, drainVars>>

\* the call of epoll_wait(epoll_fd, &ev, 1, -1) begins: the thread blocks
EnterWait ==
    /\ pc = "call"
    /\ pc' = "wait"
    /\ intr' = FALSE
    /\ UNCHANGED <<stopped, ev, err, wres, sigInCb>>
    /\ UNCHANGED <<regVars, tmp, cur, acc>>
    /\ UNCHANGED <<ioVars, envVars, drainVars>>

\* a loop that treats every return of epoll_wait alike
AfterWait_Ignore(res) == "dispatch"

\* if (r < 0 && errno != EINTR) throw runtime_error("epoll_wait failed");
\* otherwise the loop goes on to the lookup of ev.data.fd
AfterWait(res) == IF res = "error" THEN "failed" ELSE "dispatch"

\* epoll_wait returns one event: r = 1 and ev is written
WaitEvent ==
    /\ pc = "wait"
    /\ \E fd \in watched : Ready(fd) /\ ev' = fd
    /\ intr' = FALSE
    /\ wres' = "event"
    /\ pc' = AfterWait("event")
    /\ UNCHANGED <<stopped, err, sigInCb>>
    /\ UNCHANGED <<regVars, tmp, cur, acc>>
    /\ UNCHANGED <<ioVars, envVars, drainVars>>

\* epoll_wait returns -1 with errno = EINTR: ev is not written
WaitIntr ==
    /\ pc = "wait"
    /\ intr
    /\ intr' = FALSE
    /\ wres' = "EINTR"
    /\ pc' = AfterWait("EINTR")
    /\ UNCHANGED <<stopped, ev, err, sigInCb>>
    /\ UNCHANGED <<regVars, tmp, cur, acc>>
    /\ UNCHANGED <<ioVars, envVars, drainVars>>

\* epoll_wait returns -1 with another errno: throw runtime_error
WaitFail ==
    /\ pc = "wait"
    /\ wres' = "error"
    /\ pc' = AfterWait("error")
    /\ err' = IF AfterWait("error") = "failed" THEN "epoll_wait failed" ELSE err
    /\ intr' = FALSE
    /\ UNCHANGED <<stopped, ev, sigInCb>>
    /\ UNCHANGED <<regVars, tmp, cur, acc>>
    /\ UNCHANGED <<ioVars, envVars, drainVars>>

\* the first statement of each notify, by the class of the observer
FirstPc(kind) == IF kind = "Stdout" THEN "accept" ELSE "read"

\* if (observers.find(ev.data.fd) != observers.end())
\*     observers.at(ev.data.fd)->notify(*this);
\* An ev that was never written holds any value (and stays unwritten).
Dispatch ==
    /\ pc = "dispatch"
    /\ \E fd \in IF ev = Indet THEN DOMAIN observers \cup {NoFd} ELSE {ev} :
         /\ ev' = ev
         /\ IF fd \in DOMAIN observers
            THEN LET o == observers[fd]
                 IN  /\ cur' = o
                     /\ eps' = [eps EXCEPT ![o].notes = Notified(eps[o])]
                     /\ pc' = FirstPc(eps[o].kind)
            ELSE /\ pc' = "top"
                 /\ UNCHANGED <<cur, eps>>
    /\ UNCHANGED <<stopped, intr, err, wres, sigInCb>>
    /\ UNCHANGED <<observers, watched, sock, tmp, acc>>
    /\ UNCHANGED ioVars
    /\ UNCHANGED <<envVars, drainVars>>


(***************************************************************************)
(* SocketReader::read: one turn of                                         *)
(*     while ((len = ::read(sock_fd, buf, NELEMS(buf) - 1)) > 0)           *)
(*         _handler->handle(buf, len);                                     *)
(* run by the notify of observer cur.  When the loop ends, notify of a     *)
(* StreamObserver goes on to delObserver, the others return.               *)
(***************************************************************************)
AfterRead(kind) == IF kind = "Stream" THEN "del" ELSE "top"

ReadTurn ==
    /\ pc = "read"
    /\ LET fd == eps[cur].fd
           r  == IF fd \in DOMAIN sock
                 THEN SockRead(sock[fd])
                 ELSE [n |-> -1, bytes |-> <<>>, sk |-> NewSock("none")]
       IN  /\ rlen' = IF r.n > 0 THEN r.n ELSE 0
           /\ sock' = IF fd \in DOMAIN sock
                      THEN [sock EXCEPT ![fd] = r.sk] ELSE sock
           /\ IF r.n > 0
              THEN \E gt \in BOOLEAN :
                     LET h   == HandlerOf(eps[cur].reader)
                         res == Handle(h, Store(buf, r.bytes), r.n, gt)
                     IN  /\ chunk' = r.bytes
                         /\ buf' = res.buf
                         /\ wr' = res.wr
                         /\ wrBy' = cur
                         /\ hnd' = h
                         /\ pc' = "read"
                         /\ cur' = cur
              ELSE /\ pc' = AfterRead(eps[cur].kind)
                   /\ cur' = IF eps[cur].kind = "Stream" THEN cur ELSE 0
                   /\ buf' = Rep("U", BufSize)
                   /\ chunk' = <<>>
                   /\ wr' = NoWrite
                   /\ wrBy' = 0
                   /\ hnd' = "none"
    /\ UNCHANGED <<observers, watched, eps, tmp, acc>>
    /\ UNCHANGED <<loopVars, envVars>>

Read == ReadTurn /\ UNCHANGED drainVars

(***************************************************************************)
(* StreamObserver::notify after the drain: notification.delObserver(fd)    *)
(***************************************************************************)
Unsubscribe ==
    /\ pc = "del"
    /\ DelObserverDel(eps[cur].fd)
    /\ pc' = "erase"
    /\ UNCHANGED <<tmp, cur, acc>>
    /\ UNCHANGED <<loopVars, ioVars, envVars, drainVars>>

Unregister ==
    /\ pc = "erase"
    /\ DelObserverErase(eps[cur].fd)
    /\ cur' = 0
    /\ pc' = "top"
    /\ UNCHANGED <<tmp, acc>>
    /\ UNCHANGED <<loopVars, ioVars, envVars, drainVars>>

(***************************************************************************)
(* StdoutObserver::notify                                                  *)
(***************************************************************************)
\* unix_accept(listen_sock): accept4 takes the first pending connection, or
\* fails (nothing pending, no descriptor free, or a transient error)
Accept ==
    /\ pc = "accept"
    /\ LET lfd == eps[cur].fd
       IN  \E ok \in BOOLEAN :
             IF /\ ok
                /\ lfd \in DOMAIN sock
                /\ sock[lfd].type = "listen"
                /\ sock[lfd].q # <<>>
                /\ HasFreeFd(sock)
             THEN LET fd == LowestFree(sock)
                  IN  /\ acc' = fd
                      /\ sock' = [sock EXCEPT ![lfd].q = Tail(@)]
                                   @@ (fd :> [type |-> "stream",
                                              q    |-> Head(sock[lfd].q).q,
                                              eof  |-> Head(sock[lfd].q).eof])
             ELSE /\ acc' = -1
                  /\ UNCHANGED sock
    /\ pc' = "ctor"
    /\ UNCHANGED <<observers, watched, eps, tmp, cur>>
    /\ UNCHANGED <<loopVars, ioVars, envVars, drainVars>>

\* a constructor that keeps the listening descriptor as its own
StreamFd_Listen(a, lfd) == lfd

\* StreamObserver's member initialiser sock_fd(unix_accept(listen_sock))
StreamFd(a, lfd) == a

\* the rest of StreamObserver's constructor:
\*     if (sock_fd < 0) throw runtime_error("accept failed");
\* Nothing between notify and main catches the exception.
Ctor ==
    /\ pc = "ctor"
    /\ IF acc < 0
       THEN /\ pc' = "failed"
            /\ err' = "accept failed"
            /\ UNCHANGED <<eps, tmp>>
       ELSE /\ eps' = Append(eps, NewObserver("Stream",
                                              StreamFd(acc, eps[cur].fd),
                                              eps[cur].reader))
            /\ tmp' = Len(eps) + 1
            /\ pc' = "add"
            /\ UNCHANGED err
    /\ UNCHANGED <<stopped, intr, ev, wres, sigInCb>>
    /\ UNCHANGED <<observers, watched, sock, cur, acc>>
    /\ UNCHANGED <<ioVars, envVars, drainVars>>

\* notification.addObserver(streamObserver)
AddStream ==
    /\ pc = "add"
    /\ AddObserver(tmp)
    /\ tmp' = 0
    /\ cur' = 0
    /\ acc' = NoFd
    /\ pc' = "top"
    /\ UNCHANGED <<loopVars, ioVars, envVars, drainVars>>

(***************************************************************************)
(* Signals.  SocketObservable::stop runs on SIGINT and SIGTERM once        *)
(* loop() has installed it; a blocked epoll_wait then returns EINTR.       *)
(***************************************************************************)
Signal ==
    /\ pc \in LoopPcs
    /\ stopped' = TRUE
    /\ intr' = (intr \/ pc = "wait")
    /\ sigInCb' = (sigInCb \/ pc \in CallbackPcs)
    /\ UNCHANGED <<pc, ev, err, wres>>
    /\ UNCHANGED <<regVars, tmp, cur, acc>>
    /\ UNCHANGED <<ioVars, envVars, drainVars>>

\* a blocked epoll_wait also returns EINTR when the process is stopped and
\* continued, with no handler run
Resume ==
    /\ pc = "wait"
    /\ ~intr
    /\ intr' = TRUE
    /\ UNCHANGED <<pc, stopped, ev, err, wres, sigInCb>>
    /\ UNCHANGED <<regVars, tmp, cur, acc>>
    /\ UNCHANGED <<ioVars, envVars, drainVars>>

(***************************************************************************)
(* main after loop() has returned: watcher goes out of scope and every     *)
(* observer left in the map is destroyed.                                  *)
(***************************************************************************)
Teardown ==
    /\ pc = "done"
    /\ observers' = <<>>
    /\ DestroyAll({observers[k] : k \in DOMAIN observers})
    /\ watched' = {}
    /\ pc' = "exit"
    /\ UNCHANGED <<tmp, cur, acc>>
    /\ UNCHANGED <<loopVars, ioVars, envVars, drainVars>>

(***************************************************************************)
(* The clients.                                                            *)
(***************************************************************************)
\* the clients act while the loop runs, at the moments when the program is
\* about to look at a socket (epoll_wait, ::read, accept4, close): what
\* they do at another moment is found done at the next of these
Running == pc \in {"wait", "read", "accept", "erase"}

SendDgram ==
    /\ Running
    /\ sent < MaxSent
    /\ \E fd \in DOMAIN sock, m \in DgramMsgs :
         /\ sock[fd].type = "dgram"
         /\ sock' = [sock EXCEPT ![fd].q = Append(@, m)]
    /\ sent' = sent + 1
    /\ UNCHANGED <<pc, observers, watched, eps, tmp, cur, acc, nconn, arg>>
    /\ UNCHANGED <<loopVars, ioVars, drainVars>>

\* connect: the connection waits in the listener's queue, and its peer may
\* write to it and close it before it is accepted
Connect ==
    /\ Running
    /\ nconn < MaxConn
    /\ \E fd \in DOMAIN sock :
         /\ sock[fd].type = "listen"
         /\ sock' = [sock EXCEPT ![fd].q = Append(@, NewSock("stream"))]
    /\ nconn' = nconn + 1
    /\ UNCHANGED <<pc, observers, watched, eps, tmp, cur, acc, sent, arg>>
    /\ UNCHANGED <<loopVars, ioVars, drainVars>>

PeerWrite ==
    /\ Running
    /\ sent < MaxSent
    /\ \E fd \in DOMAIN sock, m \in StreamMsgs :
         /\ sock[fd].type = "stream"
         /\ ~sock[fd].eof
         /\ sock' = [sock EXCEPT ![fd].q = @ \o m]
    /\ sent' = sent + 1
    /\ UNCHANGED <<pc, observers, watched, eps, tmp, cur, acc, nconn, arg>>
    /\ UNCHANGED <<loopVars, ioVars, drainVars>>

PeerClose ==
    /\ Running
    /\ \E fd \in DOMAIN sock :
         /\ sock[fd].type = "stream"
         /\ ~sock[fd].eof
         /\ sock' = [sock EXCEPT ![fd].eof = TRUE]
    /\ UNCHANGED <<pc, observers, watched, eps, tmp, cur, acc>>
    /\ UNCHANGED <<loopVars, ioVars, envVars, drainVars>>

Next ==
    \/ Startup
    \/ Check
    \/ EnterWait
    \/ WaitEvent
    \/ WaitIntr
    \/ WaitFail
    \/ Dispatch
    \/ Read
    \/ Unsubscribe
    \/ Unregister
    \/ Accept
    \/ Ctor
    \/ AddStream
    \/ Signal
    \/ Resume
    \/ Teardown
    \/ SendDgram
    \/ Connect
    \/ PeerWrite
    \/ PeerClose

Spec == Init /\ [][Next]_vars


(***************************************************************************)
(* Properties of the reactor (specification Spec).                         *)
(***************************************************************************)
Registered(o) ==
    eps[o].fd \in DOMAIN observers /\ observers[eps[o].fd] = o

StreamObs == {o \in DOMAIN eps : eps[o].kind = "Stream"}

\* the descriptor number of o is in use again: a later accept has returned
\* it, for a younger observer (which may still be under construction)
Reused(o) ==
    \/ \E o2 \in DOMAIN eps : o2 > o /\ eps[o2].fd = eps[o].fd
    \/ pc = "ctor" /\ acc = eps[o].fd

\* C1: once the first notify of the observer of an accepted connection has
\* returned, the observer is out of the registry and destroyed, its
\* descriptor is closed and off the epoll interest list (a descriptor
\* number that is open or watched again has been given to a younger
\* observer by a later accept), whatever the peer did or still holds; and
\* no such observer is notified twice.
C1_OneShotConnection ==
    \A o \in StreamObs :
        /\ eps[o].notes <= 1
        /\ (eps[o].notes >= 1 /\ cur # o) =>
              /\ ~Registered(o)
              /\ ~eps[o].alive
              /\ eps[o].closes = 1
              /\ (eps[o].fd \in DOMAIN sock \/ eps[o].fd \in watched)
                    => Reused(o)

\* C1 witness: a connection whose peer had not closed has had its one
\* notify and is gone, and its descriptor number now belongs to the
\* registered observer of a later connection
C1_Witness ==
    /\ pc = "top"
    /\ \E o, o2 \in StreamObs :
         /\ eps[o].notes = 1 /\ ~eps[o].alive /\ eps[o].peerOpen
         /\ o2 > o /\ eps[o2].fd = eps[o].fd /\ Registered(o2)

\* C2: a failed accept in the listener's notify is swallowed: the
\* constructor step that sees sock_fd < 0 creates no observer, leaves the
\* registry alone, raises nothing and hands control back to the loop.
C2_AcceptFailureSwallowed ==
    [][(pc = "ctor" /\ acc < 0 /\ pc' # pc) =>
          /\ pc' = "top"
          /\ err' = "none"
          /\ observers' = observers
          /\ eps' = eps]_vars

C6_AcceptRegistersOne ==
    [][/\ (pc \in {"accept", "ctor"}) =>
            (observers' = observers /\ watched' = watched)
       /\ (pc = "add" /\ pc' # pc) =>
            /\ pc' = "top"
            /\ acc \notin DOMAIN observers
            /\ acc # eps[cur].fd
            /\ eps[cur].kind = "Stdout" /\ Registered(cur)
            /\ DOMAIN observers' = DOMAIN observers \cup {acc}
            /\ \A k \in DOMAIN observers : observers'[k] = observers[k]
            /\ observers'[acc] = tmp
            /\ eps[tmp].kind = "Stream" /\ eps[tmp].fd = acc
            /\ acc \in DOMAIN sock'
            /\ watched' = watched \cup {acc}
            /\ acc \notin watched
            /\ eps' = eps]_vars

\* C6 witness: a second connection has been accepted and registered while
\* the first is still registered
C6_Witness ==
    /\ pc = "top"
    /\ \E o1, o2 \in StreamObs :
         o1 # o2 /\ Registered(o1) /\ Registered(o2) /\ eps[o1].alive
         /\ eps[o2].alive

\* the chunk as JournalHandler would forward it
Folded(c) == [i \in 1..Len(c) |-> JournalFold(c[i])]

FromStream == wrBy # 0 /\ eps[wrBy].kind = "Stream"

\* C9 as stated: every chunk read from an accepted connection goes through
\* the newline-folding JournalHandler and reaches the logger with each
\* newline replaced by a space.
C9_StreamFolded ==
    FromStream =>
        hnd = "JournalHandler" /\ wr.len = Len(chunk) /\ wr.bytes = Folded(chunk)

\* C9 amended: every chunk read from an accepted connection goes through
\* the pass-through StreamHandler and reaches the logger unchanged,
\* newlines included.
C9_StreamVerbatim ==
    FromStream =>
        /\ hnd = "StreamHandler"
        /\ wr.start = 0 /\ wr.len = Len(chunk) /\ wr.bytes = chunk

\* C9 witness: a chunk with an embedded newline has been read from an
\* accepted connection and handed to the logger
C9_Witness ==
    FromStream /\ \E i \in 1..Len(chunk) : chunk[i] = "NL" /\ i < Len(chunk)

(***************************************************************************)
(* The reactor under the scheduling the program has: a step of main, of    *)
(* the loop or of the running notify that can be taken is taken; an        *)
(* epoll_wait returns once it has an event or an interruption to return.   *)
(* Clients, signals and a failure of epoll_wait are under no obligation.   *)
(***************************************************************************)
ProgramStep ==
    \/ Startup
    \/ Check
    \/ EnterWait
    \/ WaitEvent
    \/ WaitIntr
    \/ Dispatch
    \/ Read
    \/ Unsubscribe
    \/ Unregister
    \/ Accept
    \/ Ctor
    \/ AddStream
    \/ Teardown

FairSpec == Init /\ [][Next]_vars /\ WF_vars(ProgramStep)

LoopOver == pc \in {"done", "exit", "failed"}

\* C4: once stopped is true the loop terminates, wherever the signal
\* found it, and with no further readiness event needed.
C4_StopTerminates == stopped ~> LoopOver

(***************************************************************************)
(* The handlers on their own (specification HandlerSpec): one call of      *)
(* handle(buf, len) for every handler, every len a read can return and     *)
(* every chunk of that length; the buffer behind the chunk holds what an   *)
(* earlier read left there, or was never written.                          *)
(***************************************************************************)
InBytes == {"<", ">", "1", "NL", "a"}
StaleBytes == {"U", ">", "a"}
Handlers == {"SyslogHandler", "JournalHandler", "StreamHandler"}

HandlerInit ==
    /\ pc = "handle"
    /\ stopped = FALSE /\ intr = FALSE /\ ev = Indet /\ err = "none"
    /\ wres = "none" /\ arg = NoFd
    /\ observers = <<>> /\ watched = {} /\ eps = <<>> /\ sock = <<>>
    /\ tmp = 0 /\ cur = 0 /\ acc = NoFd
    /\ wr = NoWrite /\ wrBy = 0
    /\ nconn = 0 /\ sent = 0 /\ sigInCb = FALSE
    /\ dIn = <<>> /\ dOut = <<>>
    /\ hnd \in Handlers
    /\ rlen \in 1..ReadCount
    /\ chunk \in [1..rlen -> InBytes]
    /\ \E st \in StaleBytes : buf = Store(Rep(st, BufSize), chunk)

\* _handler->handle(buf, len)
HandleCall ==
    /\ pc = "handle"
    /\ \E gt \in BOOLEAN :
         LET res == Handle(hnd, buf, rlen, gt)
         IN  buf' = res.buf /\ wr' = res.wr
    /\ pc' = "handled"
    /\ UNCHANGED <<regVars, tmp, cur, acc, rlen, chunk, wrBy, hnd>>
    /\ UNCHANGED <<loopVars, envVars, drainVars>>

HandlerNext == HandleCall

HandlerSpec == HandlerInit /\ [][HandlerNext]_vars

\* position of the '>' that ends a priority tag '<' digits '>' at the
\* front of chunk c, or 0 when c does not begin with such a tag
TagEnd(c) ==
    IF Len(c) >= 2 /\ c[1] = "<"
          /\ \E j \in 2..Len(c) : c[j] = ">" /\ \A i \in 2..(j - 1) : c[i] = "1"
    THEN CHOOSE j \in 2..Len(c) : c[j] = ">" /\ \A i \in 2..(j - 1) : c[i] = "1"
    ELSE 0

\* position of the last byte of c that is not a newline, or 0
LastText(c) ==
    IF \E k \in 1..Len(c) : c[k] # "NL"
    THEN CHOOSE k \in 1..Len(c) :
             c[k] # "NL" /\ \A i \in (k + 1)..Len(c) : c[i] = "NL"
    ELSE 0

\* the chunk without its priority tag and without its trailing newlines
Stripped(c) == SubSeq(c, TagEnd(c) + 1, LastText(c))

\* C8: SyslogHandler::handle forwards the chunk without its leading
\* priority tag, if it has one, and without its trailing newlines, and
\* drops or adds no other byte.
C8_SyslogStrips ==
    (pc = "handled" /\ hnd = "SyslogHandler") =>
        /\ wr.len = Len(Stripped(chunk))
        /\ wr.bytes = Stripped(chunk)

\* C10: JournalHandler::handle makes one logger write of exactly len
\* bytes: the chunk with each newline replaced by a space and every other
\* byte, at every position, as it came.
C10_JournalFolds ==
    (pc = "handled" /\ hnd = "JournalHandler") =>
        /\ wr.start = 0
        /\ wr.len = rlen
        /\ Len(wr.bytes) = Len(chunk)
        /\ \A i \in 1..Len(chunk) :
              wr.bytes[i] = IF chunk[i] = "NL" THEN "SP" ELSE chunk[i]

\* C10 witness: two lines in one chunk have been forwarded as one line
C10_Witness ==
    /\ pc = "handled" /\ hnd = "JournalHandler"
    /\ chunk = TwoLines
    /\ wr.bytes = <<"a", "SP", "a">>

(***************************************************************************)
(* One drain on its own (specification DrainSpec): notify has just called  *)
(* _reader->read(sock_fd) on a descriptor that holds some bytes, and       *)
(* nothing more arrives.  The descriptor is the journal datagram socket    *)
(* (the only observer that main could construct) or an accepted            *)
(* connection, whose peer has closed or not.                               *)
(***************************************************************************)
\* how many datagrams are queued when the drain begins
MaxQueued == 3

DrainDgrams == {<<>>, <<"a">>, TwoLines, LongMsg}
DrainBytes == {<<>>, <<"a">>, TwoLines, LongMsg, LongMsg \o TwoLines}

RECURSIVE SeqsUpTo(_, _)
SeqsUpTo(S, n) ==
    IF n = 0 THEN {<<>>}
    ELSE LET shorter == SeqsUpTo(S, n - 1)
         IN  shorter \cup {Append(q, x) : q \in shorter, x \in S}

DrainInit ==
    /\ pc = "read"
    /\ stopped = FALSE /\ intr = FALSE /\ err = "none"
    /\ wres = "none" /\ arg = NoFd
    /\ tmp = 0 /\ acc = NoFd
    /\ buf = Rep("U", BufSize) /\ rlen = 0 /\ chunk = <<>>
    /\ wr = NoWrite /\ wrBy = 0 /\ hnd = "none"
    /\ nconn = 0 /\ sent = 0 /\ sigInCb = FALSE
    /\ dOut = <<>>
    /\ \/ /\ eps = <<NewObserver("Socket", FirstFd, ReaderOfKind("Socket"))>>
          /\ observers = (FirstFd :> 1)
          /\ watched = {FirstFd}
          /\ cur = 1
          /\ ev = FirstFd
          /\ \E q \in SeqsUpTo(DrainDgrams, MaxQueued) :
               sock = (FirstFd :> [type |-> "dgram", q |-> q, eof |-> FALSE])
       \/ /\ eps = <<NewObserver("Stdout", FirstFd, ReaderOfKind("Stdout")),
                     [NewObserver("Stream", FirstFd + 1, ReaderOfKind("Stdout"))
                        EXCEPT !.notes = 1]>>
          /\ observers = (FirstFd :> 1) @@ (FirstFd + 1 :> 2)
          /\ watched = {FirstFd, FirstFd + 1}
          /\ cur = 2
          /\ ev = FirstFd + 1
          /\ \E q \in DrainBytes, e \in BOOLEAN :
               sock = (FirstFd :> NewSock("listen"))
                        @@ (FirstFd + 1 :> [type |-> "stream", q |-> q, eof |-> e])
    /\ dIn = Avail(sock[eps[cur].fd])

\* one turn of the read loop; a chunk handed to the handler is noted
DrainRead ==
    /\ ReadTurn
    /\ dOut' = IF pc' = "read" THEN dOut \o chunk' ELSE dOut
    /\ dIn' = dIn

DrainNext == DrainRead

DrainSpec == DrainInit /\ [][DrainNext]_vars

\* C7: a drain of a descriptor that holds k bytes and gets no more hands
\* on chunks of at least one byte and at most the buffer's size each, and
\* when it ends the chunks, in order, are exactly the k bytes.
C7_DrainDeliversAll ==
    /\ (wrBy # 0) => (Len(chunk) >= 1 /\ Len(chunk) <= BufSize)
    /\ (pc # "read") => dOut = dIn

(***************************************************************************)
(* The registry on its own (specification RegistrySpec): a caller makes    *)
(* observers on descriptors of its choice and calls addObserver and        *)
(* delObserver in any order.  As in main and StdoutObserver::notify, the   *)
(* caller's shared_ptr goes away when addObserver has returned; as with    *)
(* every observer class, the destructor closes the descriptor.             *)
(***************************************************************************)
HarnessFds == {FirstFd, FirstFd + 1}

RegistryInit == pc = "caller" /\ Quiet

\* make_shared of an observer whose key() is fd
CallerMakes ==
    /\ pc = "caller"
    /\ Len(eps) < MaxObs
    /\ \E fd \in HarnessFds :
         /\ eps' = Append(eps, NewObserver("Socket", fd, ReaderOfKind("Socket")))
         /\ sock' = IF fd \in DOMAIN sock THEN sock
                    ELSE sock @@ (fd :> NewSock("dgram"))
    /\ tmp' = Len(eps) + 1
    /\ pc' = "calladd"
    /\ UNCHANGED <<observers, watched, cur, acc>>
    /\ UNCHANGED <<loopVars, ioVars, envVars, drainVars>>

\* addObserver(observer)
CallerAdds ==
    /\ pc = "calladd"
    /\ AddObserver(tmp)
    /\ tmp' = 0
    /\ pc' = "caller"
    /\ UNCHANGED <<cur, acc>>
    /\ UNCHANGED <<loopVars, ioVars, envVars, drainVars>>

\* the caller calls delObserver(key), the key registered or not
CallerPicks ==
    /\ pc = "caller"
    /\ arg' \in HarnessFds \cup {FirstFd + 2}
    /\ pc' = "calldel"
    /\ UNCHANGED <<regVars, tmp, cur, acc>>
    /\ UNCHANGED <<loopVars, ioVars, nconn, sent, drainVars>>

\* delObserver(key): the epoll_ctl
CallerDels ==
    /\ pc = "calldel"
    /\ DelObserverDel(arg)
    /\ pc' = "callerase"
    /\ UNCHANGED <<tmp, cur, acc>>
    /\ UNCHANGED <<loopVars, ioVars, envVars, drainVars>>

\* delObserver(key): the erase
CallerErases ==
    /\ pc = "callerase"
    /\ DelObserverErase(arg)
    /\ pc' = "caller"
    /\ UNCHANGED <<tmp, cur, acc>>
    /\ UNCHANGED <<loopVars, ioVars, envVars, drainVars>>

RegistryNext == CallerMakes \/ CallerAdds \/ CallerPicks \/ CallerDels
                    \/ CallerErases

RegistrySpec == RegistryInit /\ [][RegistryNext]_vars

\* C5: addObserver with a descriptor that is already a key fails with
\* DuplicateDescriptor and changes nothing: the key still maps to the
\* observer registered first, which is alive, its descriptor open.
C5_DuplicateRejected ==
    [][(pc = "calladd" /\ eps[tmp].fd \in DOMAIN observers /\ pc' # pc) =>
          /\ err' = "DuplicateDescriptor"
          /\ observers' = observers
          /\ eps'[observers[eps[tmp].fd]].alive
          /\ eps[tmp].fd \in DOMAIN sock']_vars

\* the descriptors of set K that are on the interest list
Subscribed(w, K) == w \cap K

\* C11: delObserver with a key that is not in the registry is a no-op:
\* neither of its two statements raises an error, changes the map, changes
\* the subscription of a registered descriptor, or opens, closes or
\* destroys anything.
C11_DelAbsentNoOp ==
    [][(pc \in {"calldel", "callerase"} /\ arg \notin DOMAIN observers
           /\ pc' # pc) =>
          /\ err' = "none"
          /\ observers' = observers
          /\ Subscribed(watched', DOMAIN observers)
                = Subscribed(watched, DOMAIN observers)
          /\ eps' = eps
          /\ sock' = sock]_vars

\* delObserver has returned for a key that never was registered, while
\* another observer is registered and subscribed
C11_Witness ==
    /\ pc = "caller"
    /\ arg = FirstFd + 2
    /\ observers # <<>>
    /\ Subscribed(watched, DOMAIN observers) # {}

(***************************************************************************)
(* Startup, failure of the loop, subscriptions, descriptors (Spec).        *)
(***************************************************************************)
\* the observers main has made
Persistent == {o \in DOMAIN eps : eps[o].kind # "Stream"}

KindsMade == {eps[o].kind : o \in Persistent}

\* C12: whichever of the three persistent observers fail to be made, main
\* goes on to the next one and then into the loop: a failure leaves the
\* registry and the observers as they were and leads to the next try
\* block, a success leads to the registration of the new observer and
\* then to the next try block (after the third: to the loop); and from
\* then on exactly the observers that were made are registered, subscribed
\* and open, until main returns.
C12_StartupSurvivesFailures ==
    /\ [](pc \notin {"exit"} =>
            \A o \in Persistent :
               \/ tmp = o
               \/ /\ Registered(o)
                  /\ eps[o].alive
                  /\ eps[o].fd \in watched
                  /\ eps[o].fd \in DOMAIN sock
                  /\ \A o2 \in Persistent : eps[o2].kind = eps[o].kind => o2 = o)
    /\ [][\A i \in 1..3 :
            /\ (pc = OpenPc(i) /\ pc' # pc) =>
                  \/ /\ pc' = AddPc(i)
                     /\ KindsMade' = KindsMade \cup {KindAt(i)}
                     /\ observers' = observers
                  \/ /\ pc' = OpenPc(i + 1)
                     /\ eps' = eps
                     /\ observers' = observers
                     /\ err' = "none"
            /\ (pc = AddPc(i) /\ pc' # pc) =>
                  /\ pc' = OpenPc(i + 1)
                  /\ eps'[tmp].fd \in DOMAIN observers'
                  /\ observers'[eps'[tmp].fd] = tmp
                  /\ eps'[tmp].fd \in watched']_vars

\* the loop has begun its first wait with the first and the third observer
\* registered, the second having failed
C12_Witness ==
    /\ pc = "wait"
    /\ KindsMade = {"Syslog", "Stdout"}
    /\ \A o \in Persistent : Registered(o) /\ eps[o].fd \in watched
    /\ Cardinality(DOMAIN observers) = 2

\* C13: an epoll_wait that fails with an errno other than EINTR ends the
\* loop at once with the exception "epoll_wait failed", and after the loop
\* has ended with an exception nothing happens any more: no notify, no
\* further wait, no change of the registry.
C13_WaitFailureFatal ==
    /\ [][(pc = "wait" /\ wres' = "error") =>
             /\ pc' = "failed"
             /\ err' = "epoll_wait failed"
             /\ cur' = cur
             /\ eps' = eps]_vars
    /\ [][pc = "failed" => UNCHANGED <<pc, err, cur, regVars, ioVars>>]_vars

\* the loop has ended on a failed wait while a registered descriptor was
\* readable
C13_Witness ==
    /\ pc = "failed"
    /\ wres = "error"
    /\ err = "epoll_wait failed"
    /\ \E fd \in DOMAIN observers : fd \in watched /\ Ready(fd)

\* C14: every key of the registry is on the interest list of epoll_fd,
\* but for the key of a delObserver that is between its two statements;
\* and when delObserver drops a key, the key is already off the interest
\* list and its descriptor still open (the registry as a whole goes away
\* only when main returns, after the loop).
C14_KeysSubscribed ==
    /\ [](\A k \in DOMAIN observers :
             k \in watched \/ (pc = "erase" /\ k = eps[cur].fd))
    /\ [][\A k \in (DOMAIN observers) \ (DOMAIN observers') :
             pc = "done" \/ (k \notin watched /\ k \in DOMAIN sock)]_vars

\* delObserver has unsubscribed the descriptor of a connection and has yet
\* to drop its key, while the persistent observers stay subscribed
C14_Witness ==
    /\ pc = "erase"
    /\ eps[cur].fd \in DOMAIN observers
    /\ eps[cur].fd \notin watched
    /\ eps[cur].fd \in DOMAIN sock
    /\ watched # {}

\* C15: every observer owns its descriptor alone and closes it exactly
\* once, when it is destroyed: a live observer has an open descriptor that
\* no other live observer has and has not closed it; a destroyed observer
\* has closed once and its descriptor number is closed (or belongs to a
\* younger observer by now); an observer in the registry is alive; every
\* close is of an open descriptor of an observer that is out of the
\* registry when the step is over; and when main has returned no observer
\* is alive and no descriptor is open.
C15_ClosedExactlyOnce ==
    /\ [](\A o \in DOMAIN eps :
            /\ eps[o].closes <= 1
            /\ eps[o].alive =>
                  /\ eps[o].closes = 0
                  /\ eps[o].fd \in DOMAIN sock
                  /\ \A o2 \in DOMAIN eps :
                        (eps[o2].alive /\ eps[o2].fd = eps[o].fd) => o2 = o
            /\ ~eps[o].alive =>
                  /\ eps[o].closes = 1
                  /\ eps[o].fd \notin DOMAIN sock \/ Reused(o)
            /\ Registered(o) => eps[o].alive
            /\ pc = "exit" => ~eps[o].alive)
    /\ [](pc = "exit" => DOMAIN sock = {})
    /\ [][\A o \in DOMAIN eps :
            eps'[o].closes > eps[o].closes =>
               /\ eps[o].alive
               /\ eps[o].fd \in DOMAIN sock
               /\ eps[o].fd \notin DOMAIN sock'
               /\ ~(eps[o].fd \in DOMAIN observers'
                      /\ observers'[eps[o].fd] = o)]_vars

\* main has returned after a connection's observer removed itself in its
\* own notify and the teardown destroyed the three persistent observers
C15_Witness ==
    /\ pc = "exit"
    /\ \E o \in StreamObs : eps[o].notes = 1 /\ eps[o].closes = 1
    /\ Cardinality(Persistent) = 3
    /\ \A o \in DOMAIN eps : eps[o].closes = 1

\* C16: the loop calls notify only for an event that the epoll_wait of the
\* same turn has returned: when the wait of this turn returned no event
\* while ev still holds the descriptor of an earlier event, the turn ends
\* without a callback.
C16_CallbackNeedsEvent ==
    [][(pc = "dispatch" /\ ev # Indet /\ pc' \in CallbackPcs) =>
          wres = "event"]_vars

\* C17: a turn of the loop whose epoll_wait was interrupted by a signal
\* does not end the loop with an exception, whatever descriptor the turn
\* before had dispatched: after a shutdown signal the loop ends normally,
\* after another signal it goes on.
C17_InterruptHarmless ==
    (wres = "EINTR" /\ ev # Indet) => pc # "failed"

\* the program is about to call addObserver
Adding == pc \in {"add1", "add2", "add3", "add"}

\* C18: every key of the registry is an open descriptor and is the
\* descriptor of the live observer stored under it; the descriptor that
\* accept has returned is not a key; and the observer that the program is
\* about to register has a descriptor that is not a key, so that no
\* addObserver of the program finds its key in the map.
C18_ReuseSafe ==
    /\ \A k \in DOMAIN observers :
          /\ k \in DOMAIN sock
          /\ observers[k] \in DOMAIN eps
          /\ eps[observers[k]].fd = k
          /\ eps[observers[k]].alive
    /\ (pc = "ctor" /\ acc >= 0) => acc \notin DOMAIN observers
    /\ Adding => eps[tmp].fd \notin DOMAIN observers

\* the program is about to register the observer of a connection whose
\* descriptor number was that of an earlier connection, now destroyed
C18_Witness ==
    /\ pc = "add"
    /\ \E o \in StreamObs :
          /\ o # tmp
          /\ eps[o].fd = eps[tmp].fd
          /\ ~eps[o].alive
    /\ eps[tmp].fd \notin DOMAIN observers

(***************************************************************************)
(* Offsets of SyslogHandler::handle and what it reads (HandlerSpec).       *)
(***************************************************************************)
\* C19: for every chunk of len >= 1 bytes, a bare or unterminated priority
\* tag and a chunk of newlines included, SyslogHandler::handle gives the
\* logger an offset start with 0 <= start <= len and a length that is not
\* negative and not more than len - start.
C19_SyslogOffsetsInRange ==
    (pc = "handled" /\ hnd = "SyslogHandler") =>
        /\ 0 <= wr.start
        /\ wr.start <= rlen
        /\ 0 <= wr.len
        /\ wr.len <= rlen - wr.start

\* the write of SyslogHandler::handle for chunk c of len bytes when the
\* buffer behind the chunk holds the byte st
WriteOver(c, len, st, gt) ==
    SyslogHandle(Store(Rep(st, BufSize), c), len, gt).wr

\* C20: what SyslogHandler::handle gives the logger depends on the len
\* bytes of the chunk alone: the same chunk in a buffer with anything else
\* behind it gives the same write.
C20_SyslogChunkOnly ==
    (pc = "handled" /\ hnd = "SyslogHandler") =>
        \A st \in StaleBytes, gt \in BOOLEAN :
            WriteOver(chunk, rlen, st, gt) = wr

====
